---- MODULE Spec2Model ----
(***************************************************************************)
(* The upload-and-analyze pipeline of src/app/routes/upload.tsx: the       *)
(* Upload component (its React state, its auth effect, its render), the    *)
(* submit handler handleSubmit and the async function handleAnalyze, one   *)
(* action per synchronous stretch of code between two awaits.              *)
(***************************************************************************)
EXTENDS Naturals, Sequences, FiniteSets, TLC

\* Number of analyses (calls of handleAnalyze) a behaviour may start.
MaxRuns == 1

RunIds == 1..MaxRuns

(***************************************************************************)
(* Values                                                                  *)
(***************************************************************************)

\* Form fields are strings, here sequences of characters. Each field is
\* tried empty, whitespace-only and filled in (one of them with padding).
CompanyNames == { <<>>, <<" ">>, <<"A", "c", "m", "e">> }
JobTitles == { <<>>, <<" ", " ">>, <<" ", "E", "n", "g", " ">> }
JobDescriptions == { <<>>, <<" ">>, <<"B", "u", "i", "l", "d">> }

IsSpace(c) == c = " "

RECURSIVE TrimStart(_)
TrimStart(s) ==
    IF s # <<>> /\ IsSpace(Head(s)) THEN TrimStart(Tail(s)) ELSE s

RECURSIVE TrimEnd(_)
TrimEnd(s) ==
    IF s # <<>> /\ IsSpace(s[Len(s)]) THEN TrimEnd(SubSeq(s, 1, Len(s) - 1)) ELSE s

\* String.prototype.trim
Trim(s) == TrimEnd(TrimStart(s))

\* Variant: !value, the trim forgotten.
BlankUntrimmed(s) == s = <<>>
\* !value?.trim()  (an empty string is falsy)
Blank(s) == Trim(s) = <<>>

\* The component's `file` state: null, or a File with a declared media type.
NoFile == [name |-> "null", type |-> "null"]
PdfFile == [name |-> "resume.pdf", type |-> "application/pdf"]
PngFile == [name |-> "photo.png", type |-> "image/png"]
Files == {PdfFile, PngFile}

\* fs.upload resolves to an FSItem carrying the path the blob got in the
\* store, or to a falsy value.
NoItem == [path |-> <<>>]
Stored(blob) == [path |-> <<"/", blob.name>>]
UploadResults(blob) == {Stored(blob), NoItem}

\* convertPdfToImage resolves to {file: File | null}.
ImageFile == [name |-> "resume.png", type |-> "image/png"]
Conversions == {[file |-> ImageFile], [file |-> NoFile]}

\* JSON values a critique can parse to.
JNull == [t |-> "null"]
JScore == [t |-> "object", score |-> 80]

\* Critique texts the generator may answer with.
Texts == {"{\"score\":80}", "null", "not json"}

\* Variant: a text that does not parse yields a value instead of throwing.
JsonParseLenient(text) ==
    CASE text = "null" -> [threw |-> FALSE, value |-> JNull]
      [] OTHER         -> [threw |-> FALSE, value |-> JScore]

\* JSON.parse: the parsed value, or a thrown SyntaxError.
JsonParse(text) ==
    CASE text = "{\"score\":80}" -> [threw |-> FALSE, value |-> JScore]
      [] text = "null"           -> [threw |-> FALSE, value |-> JNull]
      [] OTHER                   -> [threw |-> TRUE, value |-> JNull]

\* ai.feedback resolves to undefined, or to {message: {content}} where
\* content is a string or a sequence of {text} parts.
NoResponse == [kind |-> "none"]
Responses ==
    {NoResponse}
    \cup {[kind |-> "string", content |-> t] : t \in Texts}
    \cup {[kind |-> "parts", content |-> <<[text |-> t]>>] : t \in Texts}
    \cup {[kind |-> "parts", content |-> <<>>]}

\* Routes of the application the model distinguishes.
NoRoute == <<>>
UploadRoute == <<"/upload">>
AuthRoute == <<"/auth?next=/upload">>
HomeRoute == <<"/">>
UserRoutes == {UploadRoute, HomeRoute}
ResumeRoute(uuid) == <<"/resume/", uuid>>

\* The key scheme of the key-value store.
Key(uuid) == <<"resume:", uuid>>
Keys == {Key(u) : u \in RunIds}

\* JSON.stringify of the record: its fields in insertion order.
Stringify(d) ==
    [json |-> <<d.id, d.resumePath, d.imagePath, d.companyName,
                d.jobTitle, d.jobDescription, d.feedback>>]

\* What a reader of the store gets back from a stored value.
ParseRecord(v) ==
    [id |-> v.json[1], resumePath |-> v.json[2], imagePath |-> v.json[3],
     companyName |-> v.json[4], jobTitle |-> v.json[5],
     jobDescription |-> v.json[6], feedback |-> v.json[7]]

Absent == [json |-> <<>>]

(***************************************************************************)
(* State                                                                   *)
(***************************************************************************)
VARIABLES
    isLoading,        \* usePuterStore().isLoading
    isAuthenticated,  \* usePuterStore().auth.isAuthenticated
    route,            \* the route the router currently renders
    navTo,            \* a navigation requested and not yet rendered
    isProcessing,     \* useState(false)
    statusText,       \* useState('')
    file,             \* useState<File | null>(null)
    runs,             \* the calls of handleAnalyze, by run id
    kv,               \* the key-value store's content
    alerted           \* what the last call of handleSubmit alerted, "" if nothing

vars == <<isLoading, isAuthenticated, route, navTo, isProcessing, statusText,
          file, runs, kv, alerted>>

NoData ==
    [id |-> 0, resumePath |-> <<>>, imagePath |-> <<>>, companyName |-> <<>>,
     jobTitle |-> <<>>, jobDescription |-> <<>>, feedback |-> JNull]

\* A run that has not been started.
IdleRun ==
    [pc |-> "idle", live |-> FALSE,
     companyName |-> <<>>, jobTitle |-> <<>>, jobDescription |-> <<>>,
     file |-> NoFile,
     uploadedFile |-> NoItem, uploadedImage |-> NoItem,
     uuid |-> 0, data |-> NoData, feedback |-> NoResponse,
     calls |-> <<>>, results |-> <<>>, writes |-> <<>>,
     error |-> "", navigated |-> NoRoute]

Mounted == route = UploadRoute

Awaiting == {"upload1", "convert", "upload2", "kvset1", "feedback", "kvset2"}

InFlight(r) == runs[r].pc \in Awaiting

Started == {r \in RunIds : runs[r].pc # "idle"}

(***************************************************************************)
(* Render (lines 144-228)                                                  *)
(***************************************************************************)
DefaultHeading == "Drop your resume for an ATS score and improvement tips"

\* The <h2> under the page heading.
Heading ==
    IF isLoading THEN "Loading..."
    ELSE IF isProcessing THEN statusText ELSE DefaultHeading

\* Variant: the form is rendered whatever isProcessing is.
FormRenderedWhileProcessing == Mounted /\ ~isLoading
\* The form exists, so a submit event can reach handleSubmit.
FormRendered == Mounted /\ ~isLoading /\ ~isProcessing

SubmitButtonEnabled == FormRendered /\ file # NoFile

Init ==
    /\ isLoading = TRUE
    /\ isAuthenticated = FALSE
    /\ route = UploadRoute
    /\ navTo = NoRoute
    /\ isProcessing = FALSE
    /\ statusText = ""
    /\ file = NoFile
    /\ runs = [r \in RunIds |-> IdleRun]
    /\ kv = [k \in Keys |-> Absent]
    /\ alerted = ""

(***************************************************************************)
(* The auth store and the router                                           *)
(***************************************************************************)

\* useEffect, lines 18-22: the navigation pending after the effect has run
\* for a component that is mounted (or not) with the given store values.
AuthEffect(mounted, loading, authed, pending) ==
    IF mounted /\ ~loading /\ ~authed THEN AuthRoute ELSE pending

\* window.alert is modal: while the dialog is up no script of the page runs.
NoDialog == alerted = ""

\* The auth check reports its result; the effect's dependencies changed.
AuthResolved(authed) ==
    /\ NoDialog
    /\ isLoading
    /\ isLoading' = FALSE
    /\ isAuthenticated' = authed
    /\ navTo' = AuthEffect(Mounted, FALSE, authed, navTo)
    /\ UNCHANGED <<route, isProcessing, statusText, file, runs, kv, alerted>>

\* The session is signed in or out after the first check.
SessionChanged ==
    /\ NoDialog
    /\ ~isLoading
    /\ isAuthenticated' = ~isAuthenticated
    /\ navTo' = AuthEffect(Mounted, isLoading, ~isAuthenticated, navTo)
    /\ UNCHANGED <<isLoading, route, isProcessing, statusText, file, runs, kv,
                   alerted>>

\* The router renders route `to`: leaving /upload unmounts the Upload
\* component, entering it mounts a new one (lines 10-22).
Render(to) ==
    /\ route' = to
    /\ IF to = route
         THEN /\ navTo' = NoRoute
              /\ UNCHANGED <<isProcessing, statusText, file, runs>>
         ELSE /\ navTo' = AuthEffect(to = UploadRoute, isLoading,
                                     isAuthenticated, NoRoute)
              /\ isProcessing' = FALSE
              /\ statusText' = ""
              /\ file' = NoFile
              /\ runs' = [r \in RunIds |-> [runs[r] EXCEPT !.live = FALSE]]
    /\ UNCHANGED <<isLoading, isAuthenticated, kv, alerted>>

\* The user goes to another page, or comes (back) to /upload.
UserNavigate(to) ==
    /\ NoDialog
    /\ to # route
    /\ Render(to)

\* A navigation requested with navigate() takes effect.
RouterCommit ==
    /\ NoDialog
    /\ navTo # NoRoute
    /\ Render(navTo)

(***************************************************************************)
(* The form                                                                *)
(***************************************************************************)

\* handleFileSelect, lines 24-26
handleFileSelect(f) ==
    /\ NoDialog
    /\ FormRendered
    /\ f # file
    /\ file' = f
    /\ UNCHANGED <<isLoading, isAuthenticated, route, navTo, isProcessing,
                   statusText, runs, kv, alerted>>

\* The validation of handleSubmit, lines 114-139: the alert shown, "" if none.
ValidationAlert(companyName, jobTitle, jobDescription, f) ==
    CASE Blank(companyName)         -> "Please enter a company name"
      [] Blank(jobTitle)            -> "Please enter a job title"
      [] Blank(jobDescription)      -> "Please enter a job description"
      [] f = NoFile                 -> "Please select a PDF file to upload"
      [] f.type # "application/pdf" -> "Please upload a PDF file"
      [] OTHER                      -> ""

\* Variant: the call is issued a second time.
IssueTwice(run, call) ==
    [run EXCEPT !.calls = Append(Append(@, call), call)]

\* One more call of fs.upload, convertPdfToImage, kv.set or ai.feedback.
Issue(run, call) ==
    [run EXCEPT !.calls = Append(@, call)]

\* How an awaited call settled: with a result, with a falsy result (for
\* convertPdfToImage: one without a file), or rejected.
Outcome(threw, falsy) == IF threw THEN "threw" ELSE IF falsy THEN "falsy" ELSE "ok"

\* The awaited call has settled.
Settle(run, outcome) == [run EXCEPT !.results = Append(@, outcome)]

\* Calls of the run issued and not yet settled.
Pending(run) == Len(run.calls) - Len(run.results)

\* setStatusText / setIsProcessing of the component that started the run:
\* without effect once that component is unmounted.
StatusAfter(r, text) == IF runs[r].live THEN text ELSE statusText
ProcessingAfter(r, b) == IF runs[r].live THEN b ELSE isProcessing

\* handleAnalyze up to its first await, lines 28-38.
AnalyzeStart(companyName, jobTitle, jobDescription, f) ==
    Issue([IdleRun EXCEPT !.pc = "upload1", !.live = TRUE,
                          !.companyName = companyName,
                          !.jobTitle = jobTitle,
                          !.jobDescription = jobDescription,
                          !.file = f], "fs.upload")

\* The run a new call of handleAnalyze becomes.
NextRun == Cardinality(Started) + 1

\* handleSubmit, lines 104-142, with the start of handleAnalyze it calls.
handleSubmit(companyName, jobTitle, jobDescription) ==
    /\ NoDialog
    /\ FormRendered
    /\ LET alert == ValidationAlert(companyName, jobTitle, jobDescription, file)
       IN IF alert # ""
            THEN /\ alerted' = alert
                 /\ UNCHANGED <<isProcessing, statusText, runs>>
            ELSE /\ NextRun \in RunIds
                 /\ alerted' = ""
                 /\ isProcessing' = TRUE
                 /\ statusText' = "Uploading the file..."
                 /\ runs' = [runs EXCEPT ![NextRun] =
                        AnalyzeStart(companyName, jobTitle, jobDescription, file)]
    /\ UNCHANGED <<isLoading, isAuthenticated, route, navTo, file, kv>>

(***************************************************************************)
(* handleAnalyze, lines 28-102: one action per continuation after an await *)
(***************************************************************************)

Others == <<isLoading, isAuthenticated, route, file, alerted>>

\* The user closes the alert and handleSubmit returns (lines 116-138).
DismissAlert ==
    /\ ~NoDialog
    /\ alerted' = ""
    /\ UNCHANGED <<isLoading, isAuthenticated, route, navTo, isProcessing,
                   statusText, file, runs, kv>>

\* Variant: the result of fs.upload is not checked.
UploadFailedUnchecked(item) == FALSE
\* if(!uploadedFile), line 39, and if(!uploadedImage), line 55
UploadFailed(item) == item = NoItem

\* Variant: a conversion without a file is not noticed.
ConversionFailedUnchecked(imageFile) == FALSE

\* if(!imageFile.file), line 47
ConversionFailed(imageFile) == imageFile.file = NoFile

\* if (!feedback), line 82
NoFeedback(feedback) == feedback = NoResponse

\* An early return of handleAnalyze with an error status (lines 39-43,
\* 47-51, 55-59, 82-86) and its catch block (lines 97-101).
Fail(r, run, message) ==
    /\ runs' = [runs EXCEPT ![r] = [run EXCEPT !.pc = "failed", !.error = message]]
    /\ statusText' = StatusAfter(r, message)
    /\ isProcessing' = ProcessingAfter(r, FALSE)
    /\ UNCHANGED <<navTo, kv>>

\* Variant: the catch block sets the message and leaves isProcessing as it is.
CatchNoReset(r, run) ==
    /\ runs' = [runs EXCEPT ![r] =
           [run EXCEPT !.pc = "failed",
                       !.error = "Error: Something went wrong during analysis"]]
    /\ statusText' = StatusAfter(r, "Error: Something went wrong during analysis")
    /\ UNCHANGED <<isProcessing, navTo, kv>>

\* catch block, lines 97-101
Catch(r, run) == Fail(r, run, "Error: Something went wrong during analysis")

\* Variant: the next call is issued without a status update.
ContinueSilent(r, run, status) ==
    /\ runs' = [runs EXCEPT ![r] = run]
    /\ UNCHANGED <<statusText, isProcessing, navTo, kv>>

\* The synchronous stretch goes on to its next await.
Continue(r, run, status) ==
    /\ runs' = [runs EXCEPT ![r] = run]
    /\ statusText' = StatusAfter(r, status)
    /\ UNCHANGED <<isProcessing, navTo, kv>>

\* lines 38-46: fs.upload([file]) settled.
UploadFileSettled(r, threw, uploadedFile) ==
    /\ NoDialog
    /\ runs[r].pc = "upload1"
    /\ LET run == Settle(runs[r], Outcome(threw, uploadedFile = NoItem))
       IN IF threw THEN Catch(r, run)
          ELSE IF UploadFailed(uploadedFile)
            THEN Fail(r, run, "Error: Failed to upload file")
            ELSE Continue(r, Issue([run EXCEPT !.pc = "convert",
                                               !.uploadedFile = uploadedFile],
                                   "convertPdfToImage"),
                          "Converting to image...")
    /\ UNCHANGED Others

\* lines 46-54: convertPdfToImage(file) settled.
ConvertSettled(r, threw, imageFile) ==
    /\ NoDialog
    /\ runs[r].pc = "convert"
    /\ LET run == Settle(runs[r], Outcome(threw, imageFile.file = NoFile))
       IN IF threw THEN Catch(r, run)
          ELSE IF ConversionFailed(imageFile)
            THEN Fail(r, run, "Error: Failed to convert PDF to image")
            ELSE Continue(r, Issue([run EXCEPT !.pc = "upload2"], "fs.upload"),
                          "Uploading the image...")
    /\ UNCHANGED Others

\* generateUUID(): a token no earlier call has returned.
generateUUID == CHOOSE u \in RunIds : \A r \in RunIds : runs[r].uuid # u

\* Variant: companyName is left out of the record.
ProvisionalDataNoCompany(uuid, uploadedFile, uploadedImage, run) ==
    [id |-> uuid,
     resumePath |-> uploadedFile.path,
     imagePath |-> uploadedImage.path,
     companyName |-> <<>>,
     jobTitle |-> run.jobTitle,
     jobDescription |-> run.jobDescription,
     feedback |-> JNull]

\* Variant: imagePath is read from a value that has no path.
ProvisionalDataNoImagePath(uuid, uploadedFile, uploadedImage, run) ==
    [id |-> uuid,
     resumePath |-> uploadedFile.path,
     imagePath |-> <<>>,
     companyName |-> run.companyName,
     jobTitle |-> run.jobTitle,
     jobDescription |-> run.jobDescription,
     feedback |-> JNull]

\* lines 64-72: the record as first built.
ProvisionalData(uuid, uploadedFile, uploadedImage, run) ==
    [id |-> uuid,
     resumePath |-> uploadedFile.path,
     imagePath |-> uploadedImage.path,
     companyName |-> run.companyName,
     jobTitle |-> run.jobTitle,
     jobDescription |-> run.jobDescription,
     feedback |-> JNull]

\* Variant: kv.set is not awaited, the next call is issued at once.
IssueSetUnawaited(run, key, value) ==
    Issue([Issue(run, "kv.set") EXCEPT
              !.writes = Append(@, [key |-> key, value |-> value,
                                    result |-> "pending"])],
          "ai.feedback")

\* kv.set(key, value) is issued: the write is logged with its outcome open.
IssueSet(run, key, value) ==
    [Issue(run, "kv.set") EXCEPT
        !.writes = Append(@, [key |-> key, value |-> value, result |-> "pending"])]

\* lines 54-74: fs.upload([imageFile.file]) settled.
UploadImageSettled(r, threw, uploadedImage) ==
    /\ NoDialog
    /\ runs[r].pc = "upload2"
    /\ LET run == Settle(runs[r], Outcome(threw, uploadedImage = NoItem))
       IN IF threw THEN Catch(r, run)
          ELSE IF UploadFailed(uploadedImage)
            THEN Fail(r, run, "Error: Failed to upload image")
            ELSE LET uuid == generateUUID
                     data == ProvisionalData(uuid, run.uploadedFile,
                                             uploadedImage, run)
                 IN Continue(r, IssueSet([run EXCEPT !.pc = "kvset1",
                                                     !.uploadedImage = uploadedImage,
                                                     !.uuid = uuid,
                                                     !.data = data],
                                         Key(uuid), Stringify(data)),
                             "Preparing data...")
    /\ UNCHANGED Others

\* What kv.set can do: store and report success, report failure without
\* storing, or reject.
SetResults == {"ok", "falsy", "threw"}

\* The store after a kv.set with the given result.
StoreAfter(write, result) ==
    IF result = "ok" THEN [kv EXCEPT ![write.key] = write.value] ELSE kv

\* The run's last write gets its result.
Written(run, result) ==
    [run EXCEPT !.writes[Len(run.writes)].result = result]

\* lines 74-80: the provisional kv.set settled.
ProvisionalSetSettled(r, result) ==
    /\ NoDialog
    /\ runs[r].pc = "kvset1"
    /\ LET run == Written(Settle(runs[r], result), result)
           write == run.writes[Len(run.writes)]
       IN /\ kv' = StoreAfter(write, result)
          /\ IF result = "threw"
               THEN /\ runs' = [runs EXCEPT ![r] =
                          [run EXCEPT !.pc = "failed",
                             !.error = "Error: Something went wrong during analysis"]]
                    /\ statusText' = StatusAfter(r,
                             "Error: Something went wrong during analysis")
                    /\ isProcessing' = ProcessingAfter(r, FALSE)
               ELSE /\ runs' = [runs EXCEPT ![r] =
                          Issue([run EXCEPT !.pc = "feedback"], "ai.feedback")]
                    /\ statusText' = StatusAfter(r, "Analyzing...")
                    /\ UNCHANGED isProcessing
    /\ UNCHANGED navTo
    /\ UNCHANGED Others

\* Variant: the first element of a content sequence is taken whole, not its
\* text field.
FeedbackTextWholePart(feedback) ==
    IF feedback.kind = "string"
      THEN [threw |-> FALSE, text |-> feedback.content]
      ELSE IF Len(feedback.content) = 0
        THEN [threw |-> TRUE, text |-> ""]
        ELSE [threw |-> FALSE, text |-> "[object Object]"]

\* lines 88-90: the critique text of a feedback result, or a TypeError when
\* the content sequence has no first element.
FeedbackText(feedback) ==
    IF feedback.kind = "string"
      THEN [threw |-> FALSE, text |-> feedback.content]
      ELSE IF Len(feedback.content) = 0
        THEN [threw |-> TRUE, text |-> ""]
        ELSE [threw |-> FALSE, text |-> feedback.content[1].text]

\* lines 77-93: ai.feedback settled.
FeedbackSettled(r, threw, feedback) ==
    /\ NoDialog
    /\ runs[r].pc = "feedback"
    /\ LET outcome == Outcome(threw, feedback = NoResponse)
           run == [Settle(runs[r], outcome) EXCEPT !.feedback = feedback]
       IN IF threw THEN Catch(r, Settle(runs[r], outcome))
          ELSE IF NoFeedback(feedback)
            THEN Fail(r, run, "Error: Failed to analyze resume")
            ELSE LET feedbackText == FeedbackText(feedback)
                     parsed == JsonParse(feedbackText.text)
                 IN IF feedbackText.threw \/ parsed.threw
                      THEN Catch(r, run)
                      ELSE LET data == [run.data EXCEPT !.feedback = parsed.value]
                           IN /\ runs' = [runs EXCEPT ![r] =
                                     IssueSet([run EXCEPT !.pc = "kvset2",
                                                          !.data = data],
                                              Key(run.uuid), Stringify(data))]
                              /\ UNCHANGED <<statusText, isProcessing, navTo, kv>>
    /\ UNCHANGED Others

\* lines 93-96: the final kv.set settled.
FinalSetSettled(r, result) ==
    /\ NoDialog
    /\ runs[r].pc = "kvset2"
    /\ LET run == Written(Settle(runs[r], result), result)
           write == run.writes[Len(run.writes)]
       IN /\ kv' = StoreAfter(write, result)
          /\ IF result = "threw"
               THEN /\ runs' = [runs EXCEPT ![r] =
                          [run EXCEPT !.pc = "failed",
                             !.error = "Error: Something went wrong during analysis"]]
                    /\ statusText' = StatusAfter(r,
                             "Error: Something went wrong during analysis")
                    /\ isProcessing' = ProcessingAfter(r, FALSE)
                    /\ UNCHANGED navTo
               ELSE /\ runs' = [runs EXCEPT ![r] =
                          [run EXCEPT !.pc = "done",
                                      !.navigated = ResumeRoute(run.uuid)]]
                    /\ statusText' = StatusAfter(r, "Analysis complete, redirecting...")
                    /\ navTo' = ResumeRoute(run.uuid)
                    /\ UNCHANGED isProcessing
    /\ UNCHANGED Others

Next ==
    \/ \E authed \in BOOLEAN : AuthResolved(authed)
    \/ SessionChanged
    \/ \E to \in UserRoutes : UserNavigate(to)
    \/ RouterCommit
    \/ \E f \in Files \cup {NoFile} : handleFileSelect(f)
    \/ DismissAlert
    \/ \E c \in CompanyNames, t \in JobTitles, d \in JobDescriptions :
          handleSubmit(c, t, d)
    \/ \E r \in RunIds, threw \in BOOLEAN :
          \E item \in UploadResults(runs[r].file) : UploadFileSettled(r, threw, item)
    \/ \E r \in RunIds, threw \in BOOLEAN, image \in Conversions :
          ConvertSettled(r, threw, image)
    \/ \E r \in RunIds, threw \in BOOLEAN, item \in UploadResults(ImageFile) :
          UploadImageSettled(r, threw, item)
    \/ \E r \in RunIds, result \in SetResults : ProvisionalSetSettled(r, result)
    \/ \E r \in RunIds, threw \in BOOLEAN, feedback \in Responses :
          FeedbackSettled(r, threw, feedback)
    \/ \E r \in RunIds, result \in SetResults : FinalSetSettled(r, result)

Spec == Init /\ [][Next]_vars

\* The continuation of run r after the call it awaits has settled.
RunStep(r) ==
    \/ \E threw \in BOOLEAN :
          \E item \in UploadResults(runs[r].file) : UploadFileSettled(r, threw, item)
    \/ \E threw \in BOOLEAN, image \in Conversions : ConvertSettled(r, threw, image)
    \/ \E threw \in BOOLEAN, item \in UploadResults(ImageFile) :
          UploadImageSettled(r, threw, item)
    \/ \E result \in SetResults : ProvisionalSetSettled(r, result)
    \/ \E threw \in BOOLEAN, feedback \in Responses : FeedbackSettled(r, threw, feedback)
    \/ \E result \in SetResults : FinalSetSettled(r, result)

\* Every awaited call settles and its continuation runs; an alert, which
\* holds back every continuation while it is up, is dismissed.
FairSpec ==
    /\ Spec
    /\ WF_vars(DismissAlert)
    /\ \A r \in RunIds : SF_vars(RunStep(r))

(***************************************************************************)
(* Properties                                                              *)
(***************************************************************************)

WhitespaceOnly(s) == \A i \in 1..Len(s) : s[i] = " "

\* The submissions the validation gate must stop.
InvalidSubmission(companyName, jobTitle, jobDescription, f) ==
    \/ WhitespaceOnly(companyName)
    \/ WhitespaceOnly(jobTitle)
    \/ WhitespaceOnly(jobDescription)
    \/ f = NoFile
    \/ f.type # "application/pdf"

\* A call of handleSubmit that does not end in an alert, or that starts a run
\* or touches the store.
UnreportedSubmit(companyName, jobTitle, jobDescription) ==
    /\ handleSubmit(companyName, jobTitle, jobDescription)
    /\ ~(alerted' # "" /\ runs' = runs /\ kv' = kv)

\* C1: a submission with an empty or whitespace-only field, without a file
\* or with a file that is not a PDF always ends in a validation alert and
\* starts no run of handleAnalyze, hence issues no call of fs.upload,
\* convertPdfToImage, kv.set or ai.feedback; every run that exists was
\* started from a valid submission.
C1_ValidationGate ==
    /\ \A c \in CompanyNames, t \in JobTitles, d \in JobDescriptions :
          InvalidSubmission(c, t, d, file) => ~ENABLED UnreportedSubmit(c, t, d)
    /\ \A r \in Started :
          ~InvalidSubmission(runs[r].companyName, runs[r].jobTitle,
                             runs[r].jobDescription, runs[r].file)

\* An invalid submission has just been refused and nothing was started.
C1_Witness ==
    /\ alerted = "Please enter a job title"
    /\ file = PdfFile
    /\ Started = {}

\* C2: in a run whose first fs.upload resolved to a falsy value, that upload
\* stays the only external call: no convertPdfToImage, no second fs.upload,
\* no kv.set and no ai.feedback is ever issued, and the run has failed.
C2_FailFast ==
    \A r \in RunIds :
        (Len(runs[r].results) >= 1 /\ runs[r].results[1] = "falsy")
            => /\ runs[r].calls = <<"fs.upload">>
               /\ runs[r].writes = <<>>
               /\ runs[r].pc = "failed"

\* The first upload of a run came back falsy.
C2_Witness ==
    \E r \in RunIds : runs[r].results = <<"falsy">> /\ runs[r].pc = "failed"

Populated(s) == ~WhitespaceOnly(s)

\* C3: once the provisional kv.set of a run has succeeded and its
\* ai.feedback has returned nothing, the store holds under "resume:" + id,
\* in every later state, a record with feedback null and with id, both
\* paths and the three submitted fields filled in.
C3_PartialDurability ==
    \A r \in RunIds :
        LET run == runs[r]
            stored == kv[Key(run.uuid)]
            rec == ParseRecord(stored)
        IN (Len(run.results) >= 5 /\ run.results[4] = "ok" /\ run.results[5] = "falsy")
            => /\ run.uuid \in RunIds
               /\ stored # Absent
               /\ rec.feedback = JNull
               /\ rec.id = run.uuid
               /\ rec.resumePath # <<>> /\ rec.resumePath = Stored(run.file).path
               /\ rec.imagePath # <<>> /\ rec.imagePath = Stored(ImageFile).path
               /\ Populated(rec.companyName) /\ rec.companyName = run.companyName
               /\ Populated(rec.jobTitle) /\ rec.jobTitle = run.jobTitle
               /\ Populated(rec.jobDescription)
               /\ rec.jobDescription = run.jobDescription

\* A run whose record was stored and whose feedback call returned nothing.
C3_Witness ==
    \E r \in RunIds :
        /\ runs[r].pc = "failed"
        /\ Len(runs[r].results) = 5
        /\ runs[r].results[4] = "ok"
        /\ runs[r].results[5] = "falsy"

\* C4: in a run that issues both kv.set calls, the two writes use the same
\* key "resume:" + id, their records agree on id, resumePath, imagePath,
\* companyName, jobTitle and jobDescription, and feedback is null in the
\* first and populated (non-null) in the second.
C4_MonotonicRecord ==
    \A r \in RunIds :
        Len(runs[r].writes) = 2 =>
            LET first == runs[r].writes[1]
                second == runs[r].writes[2]
                a == ParseRecord(first.value)
                b == ParseRecord(second.value)
            IN /\ first.key = second.key
               /\ first.key = Key(a.id)
               /\ a.id = b.id
               /\ a.resumePath = b.resumePath
               /\ a.imagePath = b.imagePath
               /\ a.companyName = b.companyName
               /\ a.jobTitle = b.jobTitle
               /\ a.jobDescription = b.jobDescription
               /\ a.feedback = JNull
               /\ b.feedback # JNull

AllSucceeded(run) ==
    /\ Len(run.results) = 6
    /\ \A i \in 1..6 : run.results[i] = "ok"

\* C5: a run in which both uploads, the conversion, both kv.set calls and
\* ai.feedback succeeded and whose critique text parsed is done, has
\* navigated to /resume/<id>, and the record stored under "resume:" + id has
\* a non-null feedback equal to the parsed critique.
C5_EndToEnd ==
    \A r \in RunIds :
        LET run == runs[r]
            stored == kv[Key(run.uuid)]
        IN AllSucceeded(run)
            => /\ run.pc = "done"
               /\ run.navigated = ResumeRoute(run.uuid)
               /\ stored # Absent
               /\ ParseRecord(stored).feedback # JNull
               /\ ParseRecord(stored).feedback
                     = JsonParse(FeedbackText(run.feedback).text).value

\* C6: every record in the key-value store with a non-null feedback has a
\* non-null resumePath and a non-null imagePath.
C6_StoreInvariant ==
    \A k \in Keys :
        (kv[k] # Absent /\ ParseRecord(kv[k]).feedback # JNull)
            => /\ ParseRecord(kv[k]).resumePath # <<>>
               /\ ParseRecord(kv[k]).imagePath # <<>>

\* The store holds a record with feedback.
C6_Witness ==
    \E k \in Keys : kv[k] # Absent /\ ParseRecord(kv[k]).feedback = JScore

\* The order of the external calls in the code of handleAnalyze.
CallOrder ==
    <<"fs.upload", "convertPdfToImage", "fs.upload", "kv.set", "ai.feedback",
      "kv.set">>

IsPrefix(a, b) == Len(a) <= Len(b) /\ SubSeq(b, 1, Len(a)) = a

\* C7: the external calls of a run are issued in the order upload original,
\* rasterize, upload image, provisional kv.set, ai.feedback, final kv.set,
\* each only after the one before it has settled: at most one call of a run
\* is in flight, and exactly one while the run is suspended at an await.
C7_StrictSequencing ==
    \A r \in RunIds :
        /\ IsPrefix(runs[r].calls, CallOrder)
        /\ Len(runs[r].results) <= Len(runs[r].calls)
        /\ Len(runs[r].calls) <= Len(runs[r].results) + 1
        /\ InFlight(r) <=> Pending(runs[r]) = 1

\* A run has issued all six calls and the last one is in flight.
C7_Witness ==
    \E r \in RunIds : runs[r].calls = CallOrder /\ Pending(runs[r]) = 1

\* The component's latest run.
Latest(r) == r \in Started /\ \A q \in Started : q <= r

\* C8: after a failing run the page shows the status text carrying the
\* failure message.
C8_FailureVisible ==
    \A r \in RunIds :
        (runs[r].pc = "failed" /\ runs[r].live /\ Latest(r) /\ ~isLoading)
            => Heading = runs[r].error

\* C9: a call of fs.upload, convertPdfToImage, kv.set or ai.feedback is
\* issued only in a state where the auth check has reported an authenticated
\* session.
C9_AuthGate ==
    [][\A r \in RunIds :
          Len(runs'[r].calls) > Len(runs[r].calls)
              => (~isLoading /\ isAuthenticated)]_vars

\* The runs of the mounted component that are between start and outcome.
Running == {r \in RunIds : runs[r].live /\ InFlight(r)}

GenericError == "Error: Something went wrong during analysis"

\* C11: when the provisional kv.set fails, by a falsy result or by
\* rejecting, the run ends with an error reported and goes no further: no
\* ai.feedback and no final kv.set is issued.
C11_ProvisionalFailureReported ==
    \A r \in RunIds :
        (Len(runs[r].results) >= 4 /\ runs[r].results[4] \in {"falsy", "threw"})
            => /\ runs[r].pc = "failed"
               /\ runs[r].error # ""
               /\ Len(runs[r].calls) = 4

\* The feedback results whose critique cannot be extracted or parsed.
Unparseable(feedback) ==
    \/ feedback.kind = "string" /\ feedback.content = "not json"
    \/ feedback.kind = "parts" /\ feedback.content = <<>>
    \/ /\ feedback.kind = "parts"
       /\ feedback.content # <<>>
       /\ feedback.content[1].text = "not json"

\* What the provisional write of a run left in the store.
ProvisionalState(run) ==
    IF run.results[4] = "ok" THEN run.writes[1].value ELSE Absent

Count(run, call) == Cardinality({i \in 1..Len(run.calls) : run.calls[i] = call})

\* The results after which handleAnalyze issues nothing more.
Ends(i, result) ==
    \/ result = "threw"
    \/ result = "falsy" /\ i \in {1, 2, 3, 5}

\* C13: a run calls fs.upload at most twice, convertPdfToImage and
\* ai.feedback at most once and kv.set at most twice, both under the same
\* key; a run that is done has made exactly 2 uploads, 1 conversion, 2 writes
\* and 1 feedback call; each step is issued at most once, and after a failed
\* call that ends the run nothing is issued again.
C13_BoundedSideEffects ==
    \A r \in RunIds :
        LET run == runs[r]
        IN /\ Count(run, "fs.upload") <= 2
           /\ Count(run, "convertPdfToImage") <= 1
           /\ Count(run, "ai.feedback") <= 1
           /\ Count(run, "kv.set") <= 2
           /\ Len(run.calls) <= Len(CallOrder)
           /\ Len(run.writes) = Count(run, "kv.set")
           /\ \A i \in 1..Len(run.writes) : run.writes[i].key = Key(run.uuid)
           /\ run.pc = "done" =>
                 /\ Count(run, "fs.upload") = 2
                 /\ Count(run, "convertPdfToImage") = 1
                 /\ Count(run, "kv.set") = 2
                 /\ Count(run, "ai.feedback") = 1
           /\ \A i \in 1..Len(run.results) :
                 Ends(i, run.results[i]) => Len(run.calls) = i

\* A run is done with its six calls made.
C13_Witness ==
    \E r \in RunIds : runs[r].pc = "done" /\ Len(runs[r].calls) = 6

\* C14: once the component that started a run is unmounted, whatever the
\* run still does changes nothing the user sees: no navigation is requested,
\* the page shown stays, status text and processing flag stay.
C14_TeardownSilent ==
    [][\A r \in RunIds :
          (InFlight(r) /\ ~runs[r].live /\ runs'[r] # runs[r])
              => /\ navTo' = navTo
                 /\ route' = route
                 /\ statusText' = statusText
                 /\ isProcessing' = isProcessing]_vars

\* The critique text a feedback result carries, in either shape.
Critique(feedback) ==
    IF feedback.kind = "string" THEN feedback.content ELSE feedback.content[1].text

Shaped(feedback) ==
    \/ feedback.kind = "string"
    \/ feedback.kind = "parts" /\ feedback.content # <<>>

\* C15: what a run does after ai.feedback returned critique text t depends
\* on t alone, not on whether t came as a string or as the text of the first
\* element of a sequence: t that does not parse fails the run with the
\* generic message and no final write; t that parses is written, parsed, as
\* the feedback of the final record, which is what the store then holds.
C15_ShapeIndependent ==
    \A r \in RunIds :
        LET run == runs[r]
        IN (Len(run.results) >= 5 /\ run.results[5] = "ok" /\ Shaped(run.feedback))
            => LET t == Critique(run.feedback)
               IN IF t = "not json"
                    THEN /\ run.pc = "failed"
                         /\ run.error = GenericError
                         /\ Len(run.writes) = 1
                    ELSE /\ Len(run.writes) = 2
                         /\ ParseRecord(run.writes[2].value).feedback
                               = (IF t = "null" THEN JNull ELSE JScore)
                         /\ run.writes[2].result = "ok"
                               => kv[Key(run.uuid)] = run.writes[2].value
                         /\ run.pc \in {"kvset2", "done", "failed"}
                         /\ run.pc = "failed" <=> run.writes[2].result = "threw"

\* A critique that came as the text of a sequence element is stored parsed.
C15_Witness ==
    \E r \in RunIds :
        /\ runs[r].pc = "done"
        /\ runs[r].feedback.kind = "parts"
        /\ kv[Key(runs[r].uuid)] # Absent
        /\ ParseRecord(kv[Key(runs[r].uuid)]).feedback = JScore

\* C16: a run whose conversion yielded no file, or whose image upload
\* yielded nothing, has failed without any kv.set and without ai.feedback,
\* and without a key, so the store holds no record of it; after the failed
\* conversion there is no second fs.upload either.
C16_NoPersistOnEarlyFailure ==
    \A r \in RunIds :
        LET run == runs[r]
        IN /\ (Len(run.results) >= 2 /\ run.results[2] = "falsy")
                => /\ run.pc = "failed"
                   /\ run.error = "Error: Failed to convert PDF to image"
                   /\ run.calls = <<"fs.upload", "convertPdfToImage">>
                   /\ run.writes = <<>>
                   /\ run.uuid = 0
           /\ (Len(run.results) >= 3 /\ run.results[3] = "falsy")
                => /\ run.pc = "failed"
                   /\ run.error = "Error: Failed to upload image"
                   /\ run.calls = <<"fs.upload", "convertPdfToImage", "fs.upload">>
                   /\ run.writes = <<>>
                   /\ run.uuid = 0
           /\ (run.writes = <<>> /\ \A q \in RunIds : runs[q].writes = <<>>)
                => \A k \in Keys : kv[k] = Absent

\* A conversion without a file has ended a run.
C16_Witness ==
    \E r \in RunIds :
        /\ runs[r].results = <<"ok", "falsy">>
        /\ runs[r].pc = "failed"

\* C17 as stated: every transition of a run whose component is mounted
\* updates the status text, the one into the final kv.set included.
C17_StatusEveryStage ==
    [][\A r \in RunIds :
          (runs[r].live /\ runs'[r].live /\ runs'[r].pc # runs[r].pc)
              => statusText' # statusText]_vars

\* The status text set on entering a stage; the final kv.set is entered
\* without an update, under the text of the stage before it.
StageStatus(pc) ==
    CASE pc = "upload1"  -> "Uploading the file..."
      [] pc = "convert"  -> "Converting to image..."
      [] pc = "upload2"  -> "Uploading the image..."
      [] pc = "kvset1"   -> "Preparing data..."
      [] pc = "feedback" -> "Analyzing..."
      [] pc = "kvset2"   -> "Analyzing..."
      [] pc = "done"     -> "Analysis complete, redirecting..."

\* C17 amended: while the component that started the latest run is mounted,
\* the status text is the one of the run's stage: updated on entering each
\* stage but the final kv.set, during which it still reads "Analyzing...",
\* updated on completion, and set to the error on every failure.
C17_StatusTracksStage ==
    \A r \in RunIds :
        (runs[r].live /\ Latest(r))
            => /\ runs[r].pc \in Awaiting \cup {"done"}
                     => statusText = StageStatus(runs[r].pc)
               /\ runs[r].pc = "failed"
                     => statusText = runs[r].error /\ runs[r].error # ""

\* The final kv.set of a mounted run is in flight.
C17_Witness ==
    \E r \in RunIds :
        /\ runs[r].live
        /\ runs[r].pc = "kvset2"
        /\ statusText = "Analyzing..."

\* The feedback of the record stored under a key.
StoredFeedback(store, k) == ParseRecord(store[k]).feedback

\* The writes of a run: none, the provisional one, or the provisional one
\* and then the final one, under one key; the provisional one after both
\* uploads succeeded, with feedback null; the final one after ai.feedback
\* returned a result whose text parsed, with the parsed value as feedback.
WriteOrder(run) ==
    /\ Len(run.writes) <= 2
    /\ \A i \in 1..Len(run.writes) : run.writes[i].key = Key(run.uuid)
    /\ Len(run.writes) >= 1
          => /\ Len(run.results) >= 3
             /\ run.results[1] = "ok" /\ run.results[3] = "ok"
             /\ run.uploadedFile # NoItem /\ run.uploadedImage # NoItem
             /\ ParseRecord(run.writes[1].value).feedback = JNull
    /\ Len(run.writes) = 2
          => /\ Len(run.results) >= 5
             /\ run.results[5] = "ok"
             /\ Shaped(run.feedback)
             /\ ~JsonParse(Critique(run.feedback)).threw
             /\ run.writes[2].value =
                   Stringify([ParseRecord(run.writes[1].value) EXCEPT
                                 !.feedback = JsonParse(Critique(run.feedback)).value])

\* A record once stored stays stored, and feedback once non-null stays so.
StoredMonotone ==
    \A k \in Keys :
        kv[k] # Absent
            => /\ kv'[k] # Absent
               /\ StoredFeedback(kv, k) # JNull => StoredFeedback(kv', k) # JNull

\* C18: per key the values written are none, the provisional one, or the
\* provisional one and then the final one; the provisional write is issued
\* only after both uploads succeeded and the final one only after
\* ai.feedback returned a result whose text parsed; the stored feedback
\* never goes from non-null back to null, so it turns non-null at most once.
C18_FeedbackLifecycle ==
    /\ [](\A r \in RunIds : WriteOrder(runs[r]))
    /\ [][StoredMonotone]_vars

\* The store holds a final record with feedback, written second.
C18_Witness ==
    \E r \in RunIds :
        /\ Len(runs[r].writes) = 2
        /\ runs[r].writes[2].result = "ok"
        /\ StoredFeedback(kv, Key(runs[r].uuid)) = JScore

\* How a run has ended: done with the navigation issued and no error, or
\* failed with an error and no navigation; isProcessing is back to FALSE
\* after a failure, so that the form is there again, and stays TRUE when done.
EndedRight(r) ==
    LET run == runs[r]
    IN /\ run.pc = "done"
             => /\ run.navigated = ResumeRoute(run.uuid)
                /\ run.error = ""
                /\ run.live => isProcessing /\ ~FormRendered
       /\ run.pc = "failed"
             => /\ run.navigated = NoRoute
                /\ run.error # ""
                /\ (run.live /\ Latest(r))
                      => /\ ~isProcessing
                         /\ ~isLoading => FormRendered

\* C19: when every awaited call settles, every run that was started ends,
\* done or failed and never both; a failed run, one ended by a rejected call
\* included, has reset isProcessing, a done run has left it TRUE.
C19_Termination ==
    /\ [](\A r \in RunIds : EndedRight(r))
    /\ \A r \in RunIds : InFlight(r) ~> (runs[r].pc \in {"done", "failed"})

\* A run ended by a rejected call has the form back.
C19_Witness ==
    \E r \in RunIds :
        /\ runs[r].pc = "failed"
        /\ runs[r].live
        /\ runs[r].results[Len(runs[r].results)] = "threw"
        /\ FormRendered

\* C20: a run that has issued navigate("/resume/" + id) has a record
\* stored under "resume:" + id whose feedback is not null: its final kv.set
\* did not report failure and the critique it parsed is not null.
C20_NavigationImpliesRecord ==
    \A r \in RunIds :
        runs[r].navigated # NoRoute
            => /\ kv[Key(runs[r].uuid)] # Absent
               /\ StoredFeedback(kv, Key(runs[r].uuid)) # JNull
               /\ runs[r].writes[2].result = "ok"
               /\ runs[r].data.feedback # JNull

====
